---------------------------- MODULE Spec2Model ----------------------------
(***************************************************************************)
(* A model of PyTattle's core: Report.send (multi-reporter dispatch),      *)
(* Crypter and Config (encrypted configuration store) and                  *)
(* Error.as_fingerprint, all of src/pytattle/__init__.py, with the         *)
(* Reporter base class of src/pytattle/reporters/__init__.py.              *)
(*                                                                         *)
(* Each component has a specification of its own over the module's one     *)
(* set of variables; the variables of the other components keep their      *)
(* initial values under it:                                                *)
(*   SpecSend    Report.__init__ / Report.send                             *)
(*   SpecCrypt   Crypter.__init__ / encrypt / decrypt                      *)
(*   SpecConfig  Config.__init__ / set_section / read / write              *)
(*   SpecError   Error.__init__ / as_fingerprint                           *)
(*   SpecReporter Reporter.__init__ / configure on a user store, with      *)
(*               Config.set_section / get_cache / write                    *)
(*   SpecSections Config.set_section on several sections                   *)
(*   SpecAttributes Reporter.__init__ / reporter.<option>                  *)
(*   SpecSerial  Report.as_dict / ErrorFactory.__init__ / create           *)
(*   SpecThreads two threads calling Config.write                          *)
(*   SpecLegacy  PyTattle.tattle / _error_report / ask (pytattle.py)       *)
(***************************************************************************)
EXTENDS Integers, Sequences, FiniteSets, TLC

VARIABLES
    \* ---- Report (src/pytattle/__init__.py:253-275)
    results,      \* Report.results: reporter name -> outcome of report()
    reporters,    \* the argument of the send call in progress (names of the reporters)
    pc,           \* where the send call is: idle, for, report, returned, raised
    pos,          \* how many reporters the for loop has finished
    sent,         \* send's local variable `sent`
    ret,          \* <<n>> once the send call returned n, <<>> before
    sends,        \* send calls begun on this Report object
    checked,      \* per position: what check_previous returned in this call
    outcome,      \* per position: what report returned or raised in this call
    checkCalls,   \* per position: calls of check_previous in this call
    reportCalls,  \* per position: calls of report in this call
    callLog,      \* the calls of this send call, in order: <<"check" | "report", position>>
    \* ---- Crypter (src/pytattle/__init__.py:20-95)
    haveCryptography, \* whether the cryptography library can be imported
    saltFiles,    \* the files at the salt paths: path -> raw bytes, for the paths that exist
    bytesNamed,   \* the files created under a bytes name by Crypter.__init__
    crypter,      \* per Crypter object: how its construction ended, its salt argument, and self.salt
    ct,           \* the last value encrypt returned or raised (NoValue before)
    enc,          \* that encrypt call: its Crypter, arguments, salt and result
    pt,           \* the last value decrypt returned or raised (NoValue before)
    dec,          \* that decrypt call: its Crypter, arguments and salt
    \* ---- Config (src/pytattle/__init__.py:108-181)
    cfgFile,      \* what the config file holds, NoValue while there is no such file
    store,        \* the Config object at hand: how its construction ended, its fields
    lastRead,     \* <<r>> while the store's last call was read, call r: the file, the maps before and after
    lastWrite,    \* <<w>> for the last call w of Config.write, while map and file are as it left them
    \* ---- Error (src/pytattle/__init__.py:194-226)
    errors,       \* per Error object: whether it is constructed, the arguments given, its attributes
    fingerprints, \* per Error object: what as_fingerprint returned or raised, NoValue before
    \* ---- Reporter.configure (src/pytattle/reporters/__init__.py:16-58, reporters/github.py:12-18)
    \*      and Config.get_cache (src/pytattle/__init__.py:133-142)
    rep,          \* the Reporter object at hand: its class, `required`, self.config
    asks,         \* the calls of ask_for by the reporter on the store at hand, in order: option and the obsecure argument
    configures,   \* configure calls on this reporter so far
    lastConfigure, \* <<c>> for the last configure call c: its result, the store's maps before and after, its ask_for calls
    lastGetCache, \* <<g>> for the last get_cache call g: the section, the result
    logins,       \* calls of github3.login so far
    \* ---- Report.as_dict and ErrorFactory (src/pytattle/__init__.py:97-106, 228-251, 271-275)
    asDict,       \* <<a>> for the last as_dict call a on the Report: paranoid, the result
    factory,      \* <<f>> for the ErrorFactory f at hand: its metadata
    created,      \* <<c>> for the last create call c on the factory: its arguments, the result
    \* ---- concurrent calls of Config.write (src/pytattle/__init__.py:167-181)
    writers,      \* per thread: where its write call is, the store as it serialized it, the result
    \* ---- PyTattle.tattle / _error_report / ask (src/pytattle/pytattle.py:25-142)
    legacy        \* <<c>> for the last call c of tattle or _error_report: its inputs, what it did, how it ended

sendVars == <<results, reporters, pc, pos, sent, ret, sends, checked, outcome,
              checkCalls, reportCalls, callLog>>

cryptVars == <<haveCryptography, saltFiles, bytesNamed, crypter, ct, enc, pt, dec>>

cfgVars == <<cfgFile, store, lastRead, lastWrite>>

errorVars == <<errors, fingerprints>>

repVars == <<rep, asks, configures, lastConfigure, lastGetCache, logins>>

serialVars == <<asDict, factory, created>>

threadVars == <<writers>>

legacyVars == <<legacy>>

vars == <<sendVars, cryptVars, cfgVars, errorVars, repVars, serialVars,
          threadVars, legacyVars>>

\* What an operation of one component leaves alone: the other components.
notSend == <<cryptVars, cfgVars, errorVars, repVars, serialVars, threadVars,
             legacyVars>>
notCrypt == <<sendVars, cfgVars, errorVars, repVars, serialVars, threadVars,
              legacyVars>>
notConfig == <<sendVars, crypter, ct, enc, pt, dec, errorVars, repVars,
               serialVars, threadVars, legacyVars>>
notError == <<sendVars, cryptVars, cfgVars, repVars, serialVars, threadVars,
              legacyVars>>
notReporter == <<sendVars, cryptVars, errorVars, cfgFile, serialVars,
                 threadVars, legacyVars>>
notSerial == <<sendVars, cryptVars, cfgVars, errorVars, repVars, threadVars,
               legacyVars>>
notThreads == <<sendVars, cryptVars, store, lastRead, lastWrite, errorVars,
                repVars, serialVars, legacyVars>>
notLegacy == <<sendVars, cryptVars, cfgVars, errorVars, repVars, serialVars,
               threadVars>>

(***************************************************************************)
(* Bounds of the model.                                                    *)
(***************************************************************************)
\* Longest reporter sequence handed to send.
MaxReporters == 3
\* send calls on one Report object.
MaxSends == 2
\* Longest text handed to Crypter.encrypt.
MaxTextLen == 2
\* configure calls on one reporter.
MaxConfigures == 2

(***************************************************************************)
(* Reporter (src/pytattle/reporters/__init__.py)                           *)
(***************************************************************************)
\* Reporter.name: the class attribute 'undefined' unless a subclass sets it
\* (GithubReporter does not), so reporters of one sequence may share a name.
ReporterNames == {"undefined", "ftp"}

\* What report() hands back: a result for a submission that succeeded or
\* failed.
Outcomes == {"ok", "failed"}

\* Reporter.check_previous: the base class returns False; a subclass answers
\* either way; GithubReporter's reaches Config.get_cache, which raises.
CheckPreviousResults == {"True", "False", "raise"}

\* Reporter.report: the base class raises NotImplementedError; a subclass
\* returns its result or raises.
ReportResults == Outcomes \cup {"raise"}

\* A dict with no entries.
EmptyDict == [k \in {} |-> "none"]

\* d[k] = v, as a Python dict assignment.
DictSet(d, k, v) == [x \in DOMAIN d \cup {k} |-> IF x = k THEN v ELSE d[x]]

\* The reporter sequences send is called with.
ReporterSeqs == UNION {[1..n -> ReporterNames] : n \in 0..MaxReporters}

NoCalls(rs) == [i \in 1..Len(rs) |-> 0]
NoAnswers(rs) == [i \in 1..Len(rs) |-> "none"]

(***************************************************************************)
(* Report                                                                  *)
(***************************************************************************)
\* Report.__init__: results = {}.
Report__init__ ==
    /\ pc \in {"returned", "raised"}
    /\ results' = EmptyDict
    /\ reporters' = <<>>
    /\ pc' = "idle"
    /\ pos' = 0
    /\ sent' = 0
    /\ ret' = <<>>
    /\ sends' = 0
    /\ checked' = <<>>
    /\ outcome' = <<>>
    /\ checkCalls' = <<>>
    /\ reportCalls' = <<>>
    /\ callLog' = <<>>
    /\ UNCHANGED notSend

\* send(reporters) is entered: sent = 0, the for loop starts.
send_enter(rs) ==
    /\ pc \in {"idle", "returned", "raised"}
    /\ sends < MaxSends
    /\ sends' = sends + 1
    /\ reporters' = rs
    /\ pc' = "for"
    /\ pos' = 0
    /\ sent' = 0
    /\ ret' = <<>>
    /\ checked' = NoAnswers(rs)
    /\ outcome' = NoAnswers(rs)
    /\ checkCalls' = NoCalls(rs)
    /\ reportCalls' = NoCalls(rs)
    /\ callLog' = <<>>
    /\ UNCHANGED <<results, notSend>>

\* `if not reporter.check_previous(...)`: whether the body of the if runs.
ShouldReport_all(previous) == TRUE

ShouldReport(previous) == ~(previous = "True")

\* What a skipped reporter leaves in results: send has no else branch.
results_after_skip_marked(res, name) == DictSet(res, name, "already reported")

results_after_skip(res, name) == res

\* The for loop takes the next reporter and calls its check_previous, which
\* answers `previous`.
send_check(previous) ==
    /\ pc = "for"
    /\ pos < Len(reporters)
    /\ checkCalls' = [checkCalls EXCEPT ![pos + 1] = @ + 1]
    /\ checked' = [checked EXCEPT ![pos + 1] = previous]
    /\ callLog' = Append(callLog, <<"check", pos + 1>>)
    /\ IF previous = "raise"
       THEN /\ pc' = "raised"
            /\ UNCHANGED <<pos, results>>
       ELSE IF ShouldReport(previous)
       THEN /\ pc' = "report"
            /\ UNCHANGED <<pos, results>>
       ELSE /\ pc' = "for"
            /\ pos' = pos + 1
            /\ results' = results_after_skip(results, reporters[pos + 1])
    /\ UNCHANGED <<reporters, sent, ret, sends, outcome, reportCalls, notSend>>

\* send_report, were report called on the next reporter whether or not its
\* check_previous has been called.
send_report_unchecked(result) ==
    /\ pc \in {"for", "report"}
    /\ pos < Len(reporters)
    /\ reportCalls' = [reportCalls EXCEPT ![pos + 1] = @ + 1]
    /\ outcome' = [outcome EXCEPT ![pos + 1] = result]
    /\ callLog' = Append(callLog, <<"report", pos + 1>>)
    /\ IF result = "raise"
       THEN /\ pc' = "raised"
            /\ UNCHANGED <<pos, results, sent>>
       ELSE /\ pc' = "for"
            /\ pos' = pos + 1
            /\ results' = DictSet(results, reporters[pos + 1], result)
            /\ UNCHANGED sent
    /\ UNCHANGED <<reporters, ret, sends, checked, checkCalls, notSend>>

\* reporter.report(...) is called and answers `result`, which is stored
\* under the reporter's name; an exception leaves send.  No statement of
\* the loop assigns `sent`.
send_report(result) ==
    /\ pc = "report"
    /\ reportCalls' = [reportCalls EXCEPT ![pos + 1] = @ + 1]
    /\ outcome' = [outcome EXCEPT ![pos + 1] = result]
    /\ callLog' = Append(callLog, <<"report", pos + 1>>)
    /\ IF result = "raise"
       THEN /\ pc' = "raised"
            /\ UNCHANGED <<pos, results, sent>>
       ELSE /\ pc' = "for"
            /\ pos' = pos + 1
            /\ results' = DictSet(results, reporters[pos + 1], result)
            /\ UNCHANGED sent
    /\ UNCHANGED <<reporters, ret, sends, checked, checkCalls, notSend>>

\* The for loop is exhausted: `return sent`.
send_return ==
    /\ pc = "for"
    /\ pos = Len(reporters)
    /\ pc' = "returned"
    /\ ret' = <<sent>>
    /\ UNCHANGED <<results, reporters, pos, sent, sends, checked, outcome,
                   checkCalls, reportCalls, callLog, notSend>>

FreshReport ==
    /\ results = EmptyDict
    /\ reporters = <<>>
    /\ pc = "idle"
    /\ pos = 0
    /\ sent = 0
    /\ ret = <<>>
    /\ sends = 0
    /\ checked = <<>>
    /\ outcome = <<>>
    /\ checkCalls = <<>>
    /\ reportCalls = <<>>
    /\ callLog = <<>>

(***************************************************************************)
(* Python values of the model.  A str is the sequence of its code points   *)
(* (below U+0800 here: the one- and two-byte forms of UTF-8), a bytes      *)
(* object the sequence of its bytes.  Where one place of the program holds *)
(* values of several types the value carries its type: <<"str", s>>,       *)
(* <<"bytes", b>>, <<"None", 0>>.  A call ends <<"ok", value>> or          *)
(* <<"raise", exception>>.                                                 *)
(***************************************************************************)
NoValue == <<"none">>
Ok(v) == <<"ok", v>>
Raise(e) == <<"raise", e>>
Str(s) == <<"str", s>>
Bytes(b) == <<"bytes", b>>
None == <<"None", 0>>

\* The UTF-8 form of one code point below U+0800.
utf8_char(cp) ==
    IF cp < 128 THEN <<cp>> ELSE <<192 + (cp \div 64), 128 + (cp % 64)>>

\* str.encode(): UTF-8.
RECURSIVE str_encode(_)
str_encode(s) ==
    IF s = <<>> THEN <<>> ELSE utf8_char(Head(s)) \o str_encode(Tail(s))

\* Whether bytes b are well-formed UTF-8 (of code points below U+0800).
RECURSIVE utf8_valid(_)
utf8_valid(b) ==
    IF b = <<>> THEN TRUE
    ELSE IF b[1] < 128 THEN utf8_valid(Tail(b))
    ELSE /\ b[1] \in 194..223
         /\ Len(b) >= 2
         /\ b[2] \in 128..191
         /\ utf8_valid(Tail(Tail(b)))

RECURSIVE utf8_text(_)
utf8_text(b) ==
    IF b = <<>> THEN <<>>
    ELSE IF b[1] < 128 THEN <<b[1]>> \o utf8_text(Tail(b))
    ELSE <<(b[1] - 192) * 64 + (b[2] - 128)>> \o utf8_text(Tail(Tail(b)))

\* bytes.decode() read as Latin-1: every byte a character.
bytes_decode_latin1(b) == Ok(b)

\* bytes.decode(): UTF-8, UnicodeDecodeError on anything else.
bytes_decode(b) ==
    IF utf8_valid(b) THEN Ok(utf8_text(b)) ELSE Raise("UnicodeDecodeError")

(***************************************************************************)
(* Crypter                                                                 *)
(***************************************************************************)
\* os.urandom(16).
SaltLen == 16

\* The Crypter objects of a run: one to encrypt, one more to decrypt.
CrypterIds == {1, 2}

\* The paths a caller names as salt file.
SaltPaths == {"a.salt"}

\* n bytes, all equal to b.
Repeat(n, b) == [i \in 1..n |-> b]

\* What os.urandom(16) may return; the all-zero value stands for every value
\* with a zero byte in it, which no file can be named by.
RandomSalts == {Repeat(SaltLen, 0), Repeat(SaltLen, 7)}

\* What a salt file written earlier holds.
SaltFileContents == {Repeat(SaltLen, 7), Repeat(SaltLen, 8)}

\* The salt argument of Crypter(salt): a path, bytes, or None.
SaltArgs ==
    {Str(p) : p \in SaltPaths} \cup {Bytes(Repeat(SaltLen, 8))} \cup {None}

\* The texts and passphrases of the model.
Chars == {97, 233}
Texts == UNION {[1..n -> Chars] : n \in 0..MaxTextLen}
Passphrases == {<<112>>, <<233>>}

\* What makes two encryptions of one text under one key differ: Fernet's
\* timestamp and random IV.
Ivs == {1, 2}

NoCrypter == [state |-> "none", arg |-> None, salt |-> None]

\* Whether a byte string has a zero byte.
HasNul(b) == \E i \in 1..Len(b) : b[i] = 0

\* Crypter.__init__(salt): how it ends, self.salt, and the files it creates
\* under a bytes name; `random` is what os.urandom returns if it is called.
Crypter_new(salt, random) ==
    IF ~haveCryptography
    THEN \* ImportError: TattleError is raised
         [state |-> "TattleError", salt |-> None, named |-> {}]
    ELSE IF salt[1] = "str"
    THEN \* the file's bytes if it exists, else the path itself
         [state |-> "ok",
          salt |-> IF salt[2] \in DOMAIN saltFiles
                   THEN Bytes(saltFiles[salt[2]]) ELSE salt,
          named |-> {}]
    ELSE IF HasNul(random)
    THEN \* open(salt, 'wb'): ValueError, embedded null byte
         [state |-> "ValueError", salt |-> None, named |-> {}]
    ELSE \* the random salt is written to the file it names
         [state |-> "ok", salt |-> Bytes(random), named |-> {random}]

\* Crypter(salt) for object c.
Crypter__init__(c, salt, random) ==
    /\ c \in CrypterIds
    /\ crypter[c].state = "none"
    /\ LET new == Crypter_new(salt, random)
       IN  /\ crypter' = [crypter EXCEPT ![c] =
                 [state |-> new.state, arg |-> salt, salt |-> new.salt]]
           /\ bytesNamed' = bytesNamed \cup new.named
    /\ UNCHANGED <<haveCryptography, saltFiles, ct, enc, pt, dec, notCrypt>>

\* Crypter._get_fernet: the key is derived from the passphrase's bytes and
\* the salt (PBKDF2HMAC, which takes no salt but bytes); a Fernet is
\* identified by its key.
Crypter_get_fernet(passphrase, salt) ==
    IF salt[1] = "bytes"
    THEN Ok(<<str_encode(passphrase), salt[2]>>)
    ELSE Raise("TypeError")

\* Fernet.encrypt: a token that only its key opens.
Fernet_encrypt(key, data, iv) == <<"token", key, iv, data>>

\* Fernet.decrypt: the data of a token made under this key and not changed
\* since; InvalidToken for anything else.
Fernet_decrypt(key, token) ==
    IF token[1] = "token" /\ token[2] = key
    THEN Ok(token[4])
    ELSE Raise("InvalidToken")

\* Crypter.encrypt on a Crypter holding `salt`.
Crypter_encrypt(salt, content, passphrase, iv) ==
    LET fernet == Crypter_get_fernet(passphrase, salt)
    IN  IF fernet[1] = "raise" THEN fernet
        ELSE Ok(Fernet_encrypt(fernet[2], str_encode(content), iv))

\* Crypter.decrypt on a Crypter holding `salt`.
Crypter_decrypt(salt, content, passphrase) ==
    LET fernet == Crypter_get_fernet(passphrase, salt)
    IN  IF fernet[1] = "raise" THEN fernet
        ELSE LET data == Fernet_decrypt(fernet[2], content)
             IN  IF data[1] = "raise" THEN data ELSE bytes_decode(data[2])

\* c.encrypt(content, passphrase).
encrypt(c, content, passphrase, iv) ==
    /\ c \in CrypterIds
    /\ crypter[c].state = "ok"
    /\ ct' = Crypter_encrypt(crypter[c].salt, content, passphrase, iv)
    /\ enc' = [by |-> c, content |-> content, passphrase |-> passphrase,
               salt |-> crypter[c].salt, result |-> ct']
    /\ pt' = NoValue
    /\ dec' = NoValue
    /\ UNCHANGED <<haveCryptography, saltFiles, bytesNamed, crypter, notCrypt>>

\* The ciphertext is changed on its way (a corrupted file, a flipped bit).
corrupt ==
    /\ ct # NoValue
    /\ ct[1] = "ok"
    /\ ct[2][1] = "token"
    /\ ct' = Ok(<<"corrupted", ct[2][2], ct[2][3], ct[2][4]>>)
    /\ UNCHANGED <<haveCryptography, saltFiles, bytesNamed, crypter, enc, pt, dec, notCrypt>>

\* c.decrypt(content, passphrase) of the ciphertext at hand.
decrypt(c, passphrase) ==
    /\ c \in CrypterIds
    /\ crypter[c].state = "ok"
    /\ ct # NoValue
    /\ ct[1] = "ok"
    /\ pt' = Crypter_decrypt(crypter[c].salt, ct[2], passphrase)
    /\ dec' = [by |-> c, content |-> ct[2], passphrase |-> passphrase,
               salt |-> crypter[c].salt]
    /\ UNCHANGED <<haveCryptography, saltFiles, bytesNamed, crypter, ct, enc, notCrypt>>

(***************************************************************************)
(* ConfigParser: the section/option map and its text (INI) form.           *)
(* A dict is a function; the DEFAULT section is kept apart from the named  *)
(* sections, as ConfigParser keeps _defaults apart from _sections.         *)
(***************************************************************************)
\* "DEFAULT"
DEFAULT == <<68, 69, 70, 65, 85, 76, 84>>

\* The elements of a finite set in some fixed order (the order of a dict's
\* keys, which no claim depends on).
RECURSIVE SetToSeq(_)
SetToSeq(S) ==
    IF S = {} THEN <<>>
    ELSE LET x == CHOOSE y \in S : TRUE IN <<x>> \o SetToSeq(S \ {x})

\* str.lower() of one character, for the letters A-Z.
lower_char(cp) == IF cp \in 65..90 THEN cp + 32 ELSE cp

\* ConfigParser.optionxform: option names are lower-cased.
optionxform(option) == [i \in 1..Len(option) |-> lower_char(option[i])]

\* The first place of character ch in s, 0 if there is none.
Find(s, ch) ==
    IF \E i \in 1..Len(s) : s[i] = ch
    THEN CHOOSE i \in 1..Len(s) : s[i] = ch /\ \A j \in 1..(i - 1) : s[j] # ch
    ELSE 0

\* The last place of character ch in s, 0 if there is none.
FindLast(s, ch) ==
    IF \E i \in 1..Len(s) : s[i] = ch
    THEN CHOOSE i \in 1..Len(s) : s[i] = ch /\ \A j \in (i + 1)..Len(s) : s[j] # ch
    ELSE 0

Whitespace == {9, 10, 13, 32}

\* str.lstrip(), str.rstrip(), str.strip().
RECURSIVE lstrip(_)
lstrip(s) ==
    IF s # <<>> /\ s[1] \in Whitespace THEN lstrip(Tail(s)) ELSE s

RECURSIVE rstrip(_)
rstrip(s) ==
    IF s # <<>> /\ s[Len(s)] \in Whitespace
    THEN rstrip(SubSeq(s, 1, Len(s) - 1)) ELSE s

strip(s) == lstrip(rstrip(s))

\* The lines of a text, without their line ends.
RECURSIVE splitlines(_)
splitlines(text) ==
    IF text = <<>> THEN <<>>
    ELSE LET i == Find(text, 10)
         IN  IF i = 0 THEN <<text>>
             ELSE <<SubSeq(text, 1, i - 1)>>
                  \o splitlines(SubSeq(text, i + 1, Len(text)))

\* RawConfigParser._write_section: "[name]", a line "key = value" per
\* option, an empty line.
RECURSIVE write_options(_, _)
write_options(keys, options) ==
    IF keys = <<>> THEN <<>>
    ELSE Head(keys) \o <<32, 61, 32>> \o options[Head(keys)] \o <<10>>
         \o write_options(Tail(keys), options)

write_section(name, options) ==
    <<91>> \o name \o <<93, 10>>
    \o write_options(SetToSeq(DOMAIN options), options) \o <<10>>

RECURSIVE write_sections(_, _)
write_sections(names, sections) ==
    IF names = <<>> THEN <<>>
    ELSE write_section(Head(names), sections[Head(names)])
         \o write_sections(Tail(names), sections)

\* RawConfigParser.write into a text stream: the DEFAULT section if it has
\* options, then every section.
ConfigParser_text(defaults, sections) ==
    (IF DOMAIN defaults # {} THEN write_section(DEFAULT, defaults) ELSE <<>>)
    \o write_sections(SetToSeq(DOMAIN sections), sections)

\* RawConfigParser._read (strict, the defaults of ConfigParser) over the
\* lines of one source, from parser state p:
\*   defaults, sections   the maps
\*   cursect              the section being filled: <<>> before any header
\*   added                the sections and (section, option) pairs of this source
\*   error                what is raised: "" if nothing
\* A line is a header "[name]", or "option = value" / "option: value"; a
\* line that is neither is a ParsingError, raised once all lines are read.
\* Comment lines and empty lines are skipped.  (Continuation lines, which
\* start with white space, are not modelled.)
ParseLine(p, rawline) ==
    LET line == strip(rawline)
        close == FindLast(line, 93)
        eq == Find(line, 61)
        colon == Find(line, 58)
        delim == IF eq = 0 THEN colon
                 ELSE IF colon = 0 THEN eq
                 ELSE IF eq < colon THEN eq ELSE colon
    IN  IF line = <<>> \/ line[1] \in {35, 59} THEN p
        ELSE IF line[1] = 91 /\ close > 2
        THEN LET name == SubSeq(line, 2, close - 1)
             IN  IF name = DEFAULT THEN [p EXCEPT !.cursect = <<name>>]
                 ELSE IF name \in DOMAIN p.sections
                 THEN IF <<name>> \in p.added
                      THEN [p EXCEPT !.error = "DuplicateSectionError"]
                      ELSE [p EXCEPT !.cursect = <<name>>,
                                     !.added = @ \cup {<<name>>}]
                 ELSE [p EXCEPT !.sections = DictSet(@, name, EmptyDict),
                                !.cursect = <<name>>,
                                !.added = @ \cup {<<name>>}]
        ELSE IF p.cursect = <<>>
        THEN [p EXCEPT !.error = "MissingSectionHeaderError"]
        ELSE IF delim = 0 \/ rstrip(SubSeq(line, 1, delim - 1)) = <<>>
        THEN [p EXCEPT !.parsing = TRUE]
        ELSE LET name == p.cursect[1]
                 option == optionxform(rstrip(SubSeq(line, 1, delim - 1)))
                 value == strip(SubSeq(line, delim + 1, Len(line)))
             IN  IF <<name, option>> \in p.added
                 THEN [p EXCEPT !.error = "DuplicateOptionError"]
                 ELSE IF name = DEFAULT
                 THEN [p EXCEPT !.defaults = DictSet(@, option, value),
                                !.added = @ \cup {<<name, option>>}]
                 ELSE [p EXCEPT !.sections[name] = DictSet(@, option, value),
                                !.added = @ \cup {<<name, option>>}]

RECURSIVE ParseLines(_, _)
ParseLines(p, lines) ==
    IF lines = <<>> \/ p.error # "" THEN p
    ELSE ParseLines(ParseLine(p, Head(lines)), Tail(lines))

\* RawConfigParser.read_string(text) on a parser holding (defaults,
\* sections): what it raises or returns, and the maps it leaves.
ConfigParser_read_string(defaults, sections, text) ==
    LET p == ParseLines([defaults |-> defaults, sections |-> sections,
                         cursect |-> <<>>, added |-> {}, error |-> "",
                         parsing |-> FALSE],
                        splitlines(text))
    IN  [result |-> IF p.error # "" THEN Raise(p.error)
                    ELSE IF p.parsing THEN Raise("ParsingError")
                    ELSE Ok(None),
         defaults |-> p.defaults,
         sections |-> p.sections]

(***************************************************************************)
(* Config                                                                  *)
(***************************************************************************)
\* The stores of the program are of the subclasses App and User, which
\* have a default_config_file; the store of the model is a User.
default_config_file == Str(".tattleuser")

\* The config_file argument: None (the default) or a path.
ConfigFileArgs == {None, Str("a.ini")}

\* The passphrase argument: None (the default) or a passphrase.
PassphraseArgs == {None, Str(<<112>>)}

\* Python's truth of a passphrase: None and "" are false.
Truthy(v) == v[1] = "str" /\ v[2] # <<>>

\* Section "s"; the options {k: v} and {K: w}; the keyword arguments K=w.
SectionNames == {<<115>>}
OptionSets == {<<107>> :> <<118>>, <<75>> :> <<119>>}
KwargSets == {EmptyDict, <<75>> :> <<119>>}

\* A map that some earlier run kept in the config file, and its text.
StoredSections == <<115>> :> (<<107>> :> <<118>>)
StoredText == ConfigParser_text(EmptyDict, StoredSections)

\* A file of plain text; an encrypted file is the Fernet token itself.
PlainFile(text) == <<"plain", str_encode(text)>>

\* The salt argument of a store: a path, or None (the default).
StoreSaltArgs == {Str(p) : p \in SaltPaths} \cup {None}

\* The salt file of the stores, where it exists.
StoreSalt == Repeat(SaltLen, 7)

\* The keys some earlier run encrypted the file under: passphrase "p" and
\* the salt of the salt file, another passphrase, another salt.
FileKeys ==
    {<<str_encode(<<112>>), StoreSalt>>,
     <<str_encode(<<233>>), StoreSalt>>,
     <<str_encode(<<112>>), Repeat(SaltLen, 8)>>}

\* What the config file may hold: the stored map as plain text, text with
\* no section header ("x"), or the stored map encrypted under one of the
\* keys.
FileContents ==
    {PlainFile(StoredText), PlainFile(<<120>>)}
    \cup {Fernet_encrypt(key, str_encode(StoredText), 1) : key \in FileKeys}

NoStore ==
    [state |-> "none", config_file |-> None, passphrase |-> None,
     salt |-> None, defaults |-> EmptyDict, sections |-> EmptyDict,
     cache |-> EmptyDict]

\* A constructor that raised e leaves no object.
Failed(e) == [NoStore EXCEPT !.state = e]

\* set_options, were the section's dict replaced by the options.
set_options_replacing(dict, options) ==
    [o \in {optionxform(k) : k \in DOMAIN options} |->
        options[CHOOSE k \in DOMAIN options : optionxform(k) = o]]

\* RawConfigParser.set for each (option, value) of `options` on one
\* section's dict: the option names go through optionxform.
set_options(dict, options) ==
    [o \in DOMAIN dict \cup {optionxform(k) : k \in DOMAIN options} |->
        IF \E k \in DOMAIN options : optionxform(k) = o
        THEN options[CHOOSE k \in DOMAIN options : optionxform(k) = o]
        ELSE dict[o]]

\* Config.read of store st while the file holds `file`: what it returns or
\* raises and the maps it leaves.
Config_read(st, file) ==
    LET unchanged(result) ==
            [result |-> result, defaults |-> st.defaults, sections |-> st.sections]
    IN  IF Truthy(st.passphrase)
        THEN IF file = NoValue
             THEN \* open(self.config_file, 'rb')
                  unchanged(Raise("FileNotFoundError"))
             ELSE LET decrypted == Crypter_decrypt(st.salt, file, st.passphrase[2])
                  IN  IF decrypted[1] = "raise" THEN unchanged(decrypted)
                      ELSE ConfigParser_read_string(st.defaults, st.sections,
                                                    decrypted[2])
        ELSE \* ConfigParser.read(path): a file that cannot be opened is skipped
             IF file = NoValue THEN unchanged(Ok(None))
             ELSE IF file[1] = "plain"
             THEN LET text == bytes_decode(file[2])
                  IN  IF text[1] = "raise" THEN unchanged(text)
                      ELSE ConfigParser_read_string(st.defaults, st.sections, text[2])
             ELSE \* a Fernet token is one line of base64 text, under no header
                  unchanged(Raise("MissingSectionHeaderError"))

\* Config.write of store st while the file holds `file`: what it returns or
\* raises and what the file holds then.
Config_write(st, file) ==
    IF Truthy(st.passphrase)
    THEN \* the text of the maps is handed to Crypter.decrypt
         LET encrypted == Crypter_decrypt(st.salt,
                              Str(ConfigParser_text(st.defaults, st.sections)),
                              st.passphrase[2])
         IN  IF encrypted[1] = "raise"
             THEN [result |-> encrypted, file |-> file]
             ELSE \* open(.., 'wb') empties the file; write(str) on it: TypeError
                  [result |-> Raise("TypeError"), file |-> PlainFile(<<>>)]
    ELSE \* ConfigParser.write(fp) with the path as fp: fp.write is called
         \* for each section there is, DEFAULT if it has options
         IF DOMAIN st.defaults = {} /\ DOMAIN st.sections = {}
         THEN [result |-> Ok(None), file |-> file]
         ELSE [result |-> Raise("AttributeError"), file |-> file]

\* What lastRead keeps of a call of read.
ReadRecord(st, file, r) ==
    [result |-> r.result, file |-> file,
     passphrase |-> st.passphrase, salt |-> st.salt,
     before |-> <<st.defaults, st.sections>>,
     after |-> <<r.defaults, r.sections>>]

\* User(config_file, passphrase, salt, **kwargs): a new store takes the
\* place of the one at hand.
Config__init__(config_file, passphrase, salt, kwargs, random) ==
    LET new == IF Truthy(passphrase) THEN Crypter_new(salt, random)
               ELSE [state |-> "ok", salt |-> None, named |-> {}]
        st == [state |-> "ok",
               config_file |-> IF config_file = None THEN default_config_file
                               ELSE config_file,
               passphrase |-> passphrase, salt |-> new.salt,
               defaults |-> EmptyDict, sections |-> EmptyDict,
               cache |-> EmptyDict]
        r == Config_read(st, cfgFile)
    IN  /\ bytesNamed' = bytesNamed \cup new.named
        /\ IF new.state # "ok"
           THEN store' = Failed(new.state) /\ lastRead' = <<>>
           ELSE IF config_file = None
           THEN \* os.path.exists(None): TypeError
                store' = Failed("TypeError") /\ lastRead' = <<>>
           ELSE IF cfgFile = NoValue
           THEN /\ store' = [st EXCEPT !.defaults = set_options(@, kwargs)]
                /\ lastRead' = <<>>
           ELSE /\ lastRead' = <<ReadRecord(st, cfgFile, r)>>
                /\ store' = IF r.result[1] = "raise"
                            THEN Failed(r.result[2])
                            ELSE [st EXCEPT
                                    !.defaults = set_options(r.defaults, kwargs),
                                    !.sections = r.sections]
        /\ asks' = <<>>
        /\ UNCHANGED <<haveCryptography, saltFiles, cfgFile, lastWrite, sendVars,
                       crypter, ct, enc, pt, dec, errorVars, rep, configures,
                       lastConfigure, lastGetCache, logins, serialVars,
                       threadVars, legacyVars>>

\* set_section, were it to save the store to its file as well.
set_section_saving(section_name, options) ==
    /\ store.state = "ok"
    /\ store' = [store EXCEPT !.sections =
          DictSet(@, section_name,
                  set_options(IF section_name \in DOMAIN @ THEN @[section_name]
                              ELSE EmptyDict,
                              options))]
    /\ cfgFile' = PlainFile(ConfigParser_text(store'.defaults, store'.sections))
    /\ lastRead' = <<>>
    /\ lastWrite' = <<>>
    /\ UNCHANGED <<haveCryptography, saltFiles, bytesNamed, notConfig>>

\* store.set_section(section_name, options).
set_section(section_name, options) ==
    /\ store.state = "ok"
    /\ store' = [store EXCEPT !.sections =
          DictSet(@, section_name,
                  set_options(IF section_name \in DOMAIN @ THEN @[section_name]
                              ELSE EmptyDict,
                              options))]
    /\ lastRead' = <<>>
    /\ lastWrite' = <<>>
    /\ UNCHANGED <<haveCryptography, saltFiles, bytesNamed, cfgFile, notConfig>>

\* store.read().
read ==
    /\ store.state = "ok"
    /\ LET r == Config_read(store, cfgFile)
       IN  /\ store' = [store EXCEPT !.defaults = r.defaults, !.sections = r.sections]
           /\ lastRead' = <<ReadRecord(store, cfgFile, r)>>
    /\ UNCHANGED <<haveCryptography, saltFiles, bytesNamed, cfgFile, lastWrite, notConfig>>

\* store.write().
write ==
    /\ store.state = "ok"
    /\ LET w == Config_write(store, cfgFile)
       IN  /\ cfgFile' = w.file
           /\ lastWrite' = <<[result |-> w.result,
                             passphrase |-> store.passphrase, salt |-> store.salt,
                             maps |-> <<store.defaults, store.sections>>]>>
    /\ lastRead' = <<>>
    /\ UNCHANGED <<haveCryptography, saltFiles, bytesNamed, store, notConfig>>

\* The file is changed from outside: put there, replaced or removed.
file_replace(content) ==
    /\ cfgFile # content
    /\ cfgFile' = content
    /\ lastWrite' = <<>>
    /\ UNCHANGED <<haveCryptography, saltFiles, bytesNamed, store, lastRead, notConfig>>

\* An encrypted file is damaged.
file_corrupt ==
    /\ cfgFile # NoValue
    /\ cfgFile[1] = "token"
    /\ cfgFile' = <<"corrupted", cfgFile[2], cfgFile[3], cfgFile[4]>>
    /\ lastWrite' = <<>>
    /\ UNCHANGED <<haveCryptography, saltFiles, bytesNamed, store, lastRead, notConfig>>

(***************************************************************************)
(* Config.get_cache and the ConfigParser calls of the reporters            *)
(***************************************************************************)
\* "github", the cache GithubReporter keeps its API handle in, and "api".
github == <<103, 105, 116, 104, 117, 98>>
api == <<97, 112, 105>>

\* RawConfigParser.has_section, options, has_option and get on store st
\* (no interpolation: no value of the model has a "%").
Config_has_section(st, section) == section \in DOMAIN st.sections

Config_options(st, section) == DOMAIN st.sections[section] \cup DOMAIN st.defaults

Config_has_option(st, section, option) ==
    /\ section \in DOMAIN st.sections
    /\ \/ optionxform(option) \in DOMAIN st.sections[section]
       \/ optionxform(option) \in DOMAIN st.defaults

Config_get(st, section, option) ==
    IF optionxform(option) \in DOMAIN st.sections[section]
    THEN st.sections[section][optionxform(option)]
    ELSE st.defaults[optionxform(option)]

\* Config.get_cache(section_name): the body reads `name`, which is no name
\* of the function or the module, before self._cache is touched.
Config_get_cache(st, section_name) == Raise("NameError")

\* store.get_cache(section_name).
get_cache(section_name) ==
    /\ store.state = "ok"
    /\ lastGetCache' = <<[section |-> section_name,
                          result |-> Config_get_cache(store, section_name)]>>
    /\ UNCHANGED <<store, lastRead, lastWrite, rep, asks, configures,
                   lastConfigure, logins, notReporter>>

\* Code that holds the store puts a value into self._cache[section_name]
\* (a defaultdict of dicts) directly.
cache_put(section_name, key, value) ==
    /\ store.state = "ok"
    /\ store' = [store EXCEPT !.cache =
          DictSet(@, section_name,
                  DictSet(IF section_name \in DOMAIN @ THEN @[section_name]
                          ELSE EmptyDict, key, value))]
    /\ lastGetCache' = <<>>
    /\ UNCHANGED <<lastRead, lastWrite, rep, asks, configures, lastConfigure,
                   logins, notReporter>>

(***************************************************************************)
(* Reporter                                                                *)
(***************************************************************************)
\* Reporter.name: "undefined"; GithubReporter does not set another.
undefined == <<117, 110, 100, 101, 102, 105, 110, 101, 100>>

\* The options: "password" (GithubReporter.required) and "retries".
password == <<112, 97, 115, 115, 119, 111, 114, 100>>
retries == <<114, 101, 116, 114, 105, 101, 115>>

\* `required` of a reporter class, in the order of the dict: per option the
\* flag (whether to obscure the input) and the type.
GithubRequired ==
    <<[option |-> password, obsecure |-> TRUE, opt_type |-> "str"]>>

RequiredMaps ==
    {GithubRequired,
     GithubRequired \o <<[option |-> retries, obsecure |-> FALSE, opt_type |-> "int"]>>}

\* Reporter itself (and the subclasses that inherit configure), and
\* GithubReporter.
ReporterClasses == {"Reporter", "GithubReporter"}

\* The keyword arguments of a reporter: none, a password "v", and with it
\* retries "5" or "v".
ReporterKwargs ==
    {EmptyDict,
     password :> <<118>>,
     (password :> <<118>>) @@ (retries :> <<53>>),
     (password :> <<118>>) @@ (retries :> <<118>>)}

\* What set_section puts into the reporter's section beforehand.
ReporterOptionSets == {password :> <<119>>, retries :> <<53>>}

NoReporter ==
    [state |-> "none", cls |-> "Reporter", defaults |-> EmptyDict,
     required |-> <<>>, config |-> EmptyDict]

\* dict.update.
DictUpdate(d, e) ==
    [k \in DOMAIN d \cup DOMAIN e |-> IF k \in DOMAIN e THEN e[k] ELSE d[k]]

\* The value of a string of digits.
RECURSIVE int_of_digits(_)
int_of_digits(s) ==
    IF s = <<>> THEN 0
    ELSE 10 * int_of_digits(SubSeq(s, 1, Len(s) - 1)) + (s[Len(s)] - 48)

\* opt_type(value) for the types str and int.
Coerce(opt_type, value) ==
    IF opt_type = "str" THEN Ok(Str(value))
    ELSE IF value # <<>> /\ \A i \in 1..Len(value) : value[i] \in 48..57
    THEN Ok(<<"int", int_of_digits(value)>>)
    ELSE Raise("ValueError")

\* ask(prompt, obscure, **kwargs): the first line reads `message`, which is
\* no name of the function or the module.
ask(obscure) == Raise("NameError")

\* Reporter.ask_for(option, prompt, obsecure): the call of ask reads
\* `obscure`, which is no name of the method or the module (the parameter
\* is `obsecure`), so ask is not reached.
ask_for(option, obsecure) ==
    LET obscure == Raise("NameError")
    IN  IF obscure[1] = "raise" THEN obscure ELSE ask(obscure[2])

\* The for loop of Reporter.configure over `required`, on store st (its
\* section there already), `asked` being the ask_for calls so far: what
\* the loop returns or raises, the sections it leaves, the ask_for calls.
\* ask_for is called with the option alone: obsecure is its default, False.
RECURSIVE configure_loop(_, _, _, _)
configure_loop(st, config, required, asked) ==
    IF required = <<>>
    THEN [result |-> Ok(None), sections |-> st.sections, asks |-> asked]
    ELSE LET option == Head(required).option
             opt_type == Head(required).opt_type
         IN  IF Config_has_option(st, undefined, option)
             THEN configure_loop(st, config, Tail(required), asked)
             ELSE LET now == IF option \in DOMAIN config THEN asked
                             ELSE Append(asked, [option |-> option, obsecure |-> FALSE])
                      value == IF option \in DOMAIN config THEN Ok(config[option])
                               ELSE ask_for(option, FALSE)
                      typed == IF value[1] = "raise" THEN value
                               ELSE Coerce(opt_type, value[2])
                  IN  IF typed[1] = "raise"
                      THEN [result |-> typed, sections |-> st.sections, asks |-> now]
                      ELSE IF typed[2][1] # "str"
                      THEN \* user.set: option values must be strings
                           [result |-> Raise("TypeError"), sections |-> st.sections,
                            asks |-> now]
                      ELSE configure_loop(
                               [st EXCEPT !.sections[undefined] =
                                   DictSet(@, optionxform(option), typed[2][2])],
                               config, Tail(required), now)

\* Reporter.configure(user) of a reporter with self.config = config.
Reporter_configure(st, config, required, asked) ==
    configure_loop(
        IF Config_has_section(st, undefined) THEN st
        ELSE [st EXCEPT !.sections = DictSet(@, undefined, EmptyDict)],
        config, required, asked)

\* self.config, were the keyword arguments put in before the section's
\* options.
Reporter_config_kwargs_first(defaults, st, kwargs) ==
    DictUpdate(
        DictUpdate(defaults, kwargs),
        IF Config_has_section(st, undefined)
        THEN [option \in Config_options(st, undefined) |->
                 Config_get(st, undefined, option)]
        ELSE EmptyDict)

\* self.config as Reporter.__init__ leaves it: a copy of the class's
\* defaults, over it the options of the store's section self.name (with
\* the store's DEFAULT options, as ConfigParser.options and get give
\* them), over that the keyword arguments.
Reporter_config(defaults, st, kwargs) ==
    DictUpdate(
        DictUpdate(
            defaults,
            IF Config_has_section(st, undefined)
            THEN [option \in Config_options(st, undefined) |->
                     Config_get(st, undefined, option)]
            ELSE EmptyDict),
        kwargs)

\* cls(config, **kwargs) with the store as config, cls having the class
\* attributes `defaults` and `required`: a new reporter takes the place of
\* the one at hand. The class's defaults are copied, not written.
Reporter__init__(cls, defaults, required, kwargs) ==
    /\ store.state = "ok"
    /\ cls = "GithubReporter" => (required = GithubRequired /\ defaults = EmptyDict)
    /\ rep' = [state |-> "ok", cls |-> cls, defaults |-> defaults,
               required |-> required,
               config |-> Reporter_config(defaults, store, kwargs)]
    /\ asks' = <<>>
    /\ configures' = 0
    /\ lastConfigure' = <<>>
    /\ UNCHANGED <<store, lastRead, lastWrite, lastGetCache, logins, notReporter>>

\* The option "name", and the names a reporter object has as attributes of
\* its own (the class attributes name, defaults, required; self.config; the
\* methods are left out).
NameOption == <<110, 97, 109, 101>>
ReporterAttributes ==
    {NameOption,
     <<100, 101, 102, 97, 117, 108, 116, 115>>,
     <<114, 101, 113, 117, 105, 114, 101, 100>>,
     <<99, 111, 110, 102, 105, 103>>}

\* Reporter.__getattr__(name).
Reporter__getattr__(r, attr) ==
    IF attr \in DOMAIN r.config THEN Str(r.config[attr]) ELSE None

\* reporter.<attr>: Python calls __getattr__ only for a name that the
\* object and its class do not have; `name` is the class attribute.
Reporter_attribute(r, attr) ==
    IF attr = NameOption THEN Str(undefined)
    ELSE IF attr \in ReporterAttributes THEN <<"object", attr>>
    ELSE Reporter__getattr__(r, attr)

\* What lastConfigure keeps of a configure call; `asked` are the ask_for
\* calls made in it.
ConfigureRecord(result, after, asked) ==
    [result |-> result, config |-> rep.config, required |-> rep.required,
     defaults |-> store.defaults, before |-> store.sections, after |-> after,
     asked |-> asked]

\* reporter.configure(user) where the reporter's class inherits
\* Reporter.configure.
configure ==
    /\ rep.state = "ok"
    /\ rep.cls = "Reporter"
    /\ store.state = "ok"
    /\ configures < MaxConfigures
    /\ LET r == Reporter_configure(store, rep.config, rep.required, asks)
       IN  /\ store' = [store EXCEPT !.sections = r.sections]
           /\ asks' = r.asks
           /\ lastConfigure' = <<ConfigureRecord(r.result, r.sections,
                                                SubSeq(r.asks, Len(asks) + 1, Len(r.asks)))>>
    /\ configures' = configures + 1
    /\ lastRead' = <<>>
    /\ lastWrite' = <<>>
    /\ UNCHANGED <<rep, lastGetCache, logins, notReporter>>

\* GithubReporter.configure(user): `super.configure` is an attribute of the
\* built-in type super, which has none of that name: AttributeError, before
\* the cache is looked at or login is called.
GithubReporter_configure ==
    /\ rep.state = "ok"
    /\ rep.cls = "GithubReporter"
    /\ store.state = "ok"
    /\ configures < MaxConfigures
    /\ lastConfigure' = <<ConfigureRecord(Raise("AttributeError"), store.sections, <<>>)>>
    /\ configures' = configures + 1
    /\ UNCHANGED <<store, lastRead, lastWrite, rep, asks, lastGetCache, logins,
                   notReporter>>

(***************************************************************************)
(* Error                                                                   *)
(***************************************************************************)
\* The Error objects of a run.
ErrorIds == {1, 2}

\* Error.fingerprint_fields, as spelled in the class.
fingerprint_fields ==
    <<"pacakge_name", "module_name", "method_name", "exc_type", "exc_message">>

\* The values of the fields: "a" and "aa".
FieldValues == {<<97>>, <<97, 97>>}

\* The line numbers a constructor is given.
Linenos == {1, 2}

\* The names the package name may be kept under: the constructor's
\* parameter, and the name in fingerprint_fields.
PackageAttrs == {"package_name", "pacakge_name"}

\* The arguments of Error.__init__ the model tells records apart by; the
\* constructor has no method_name parameter.
ErrorArgs(lineno, exc_message) ==
    [lineno |-> lineno, package_name |-> <<97>>, module_name |-> <<97>>,
     exc_type |-> <<97>>, exc_message |-> exc_message]

NoError == [state |-> "none", given |-> <<>>, attrs |-> EmptyDict]

\* hashlib.sha256 taken as collision-free: the digest stands for the bytes
\* that were fed.
sha256_hexdigest(fed) == <<"sha256", fed>>

\* The loop of as_fingerprint over `fields`, `fed` being what sha.update
\* has had so far: getattr raises AttributeError for an attribute the
\* object has not; str(value).encode() of each field is fed with nothing
\* in between.
RECURSIVE sha_updates(_, _, _)
sha_updates(attrs, fields, fed) ==
    IF fields = <<>> THEN Ok(fed)
    ELSE IF Head(fields) \notin DOMAIN attrs THEN Raise("AttributeError")
    ELSE sha_updates(attrs, Tail(fields), fed \o str_encode(attrs[Head(fields)]))

\* Error.as_fingerprint on an object with attributes attrs.
Error_as_fingerprint(attrs) ==
    LET fed == sha_updates(attrs, fingerprint_fields, <<>>)
    IN  IF fed[1] = "raise" THEN fed ELSE Ok(sha256_hexdigest(fed[2]))

\* Error(application_metadata, system_metadata, lineno, package_name,
\* module_name, exc_type, exc_value, exc_message, traceback, timestamp) for
\* object e: the body is `pass`, nothing is stored.
Error__init__(e, lineno, exc_message) ==
    /\ errors[e].state = "none"
    /\ errors' = [errors EXCEPT ![e] =
          [state |-> "ok", given |-> ErrorArgs(lineno, exc_message),
           attrs |-> EmptyDict]]
    /\ UNCHANGED <<fingerprints, notError>>

\* The class stores no field, so an object has the fields that code
\* outside the class (a subclass handed to ErrorFactory as error_class, the
\* caller) sets on it: the exception type and message the constructor was
\* given, a package name under either name, a module and a method name.
setattrs(e, package_attr, package_name, module_name, method_name) ==
    /\ errors[e].state = "ok"
    /\ errors' = [errors EXCEPT ![e].attrs =
          [f \in {package_attr, "module_name", "method_name", "exc_type",
                  "exc_message"} |->
              IF f = package_attr THEN package_name
              ELSE IF f = "module_name" THEN module_name
              ELSE IF f = "method_name" THEN method_name
              ELSE errors[e].given[f]]]
    /\ fingerprints' = [fingerprints EXCEPT ![e] = NoValue]
    /\ UNCHANGED notError

\* e.as_fingerprint().
as_fingerprint(e) ==
    /\ errors[e].state = "ok"
    /\ fingerprints' = [fingerprints EXCEPT ![e] = Error_as_fingerprint(errors[e].attrs)]
    /\ UNCHANGED <<errors, notError>>

(***************************************************************************)
(* Serializable, Report.as_dict and ErrorFactory                           *)
(***************************************************************************)
\* Serializable.as_dict(paranoid), which Config and Error inherit and do
\* not override.
Serializable_as_dict(paranoid) == Raise("NotImplementedError")

\* Report.as_dict(paranoid) of a Report with the given results: the
\* arguments of dict(...) are evaluated in order, user first.
Report_as_dict(report_results, paranoid) ==
    LET user == Serializable_as_dict(paranoid)
        error == Serializable_as_dict(paranoid)
    IN  IF user[1] = "raise" THEN user
        ELSE IF error[1] = "raise" THEN error
        ELSE Ok([user |-> user[2], error |-> error[2], results |-> report_results])

\* report.as_dict(paranoid), the Report's user being the store at hand.
as_dict(paranoid) ==
    /\ store.state = "ok"
    /\ asDict' = <<[paranoid |-> paranoid,
                    result |-> Report_as_dict(results, paranoid)]>>
    /\ UNCHANGED <<factory, created, notSerial>>

\* The keyword arguments of ErrorFactory(...): none, or version = "1".
ApplicationMetadata == {EmptyDict, [version |-> <<49>>]}

\* ErrorFactory._get_system_metadata(): the body is `pass`.
ErrorFactory_get_system_metadata == None

\* ErrorFactory(**application_metadata): a new factory takes the place of
\* the one at hand.
ErrorFactory__init__(application_metadata) ==
    /\ factory' = <<[error_class |-> "Error",
                     application_metadata |-> application_metadata,
                     system_metadata |-> ErrorFactory_get_system_metadata]>>
    /\ created' = <<>>
    /\ UNCHANGED <<asDict, notSerial>>

\* The exceptions create is given: None (the current state) or an
\* exception; the overrides: none, lineno, or lineno and exc_message.
Exceptions == {None, <<"exception", "ZeroDivisionError">>}
OverrideSets ==
    {EmptyDict, [lineno |-> <<55>>], [lineno |-> <<55>>, exc_message |-> <<109>>]}

\* ErrorFactory.create(exc, **kwargs): the body is `pass`.
ErrorFactory_create(f, exc, kwargs) == Ok(None)

\* factory.create(exc, **kwargs).
create(exc, kwargs) ==
    /\ factory # <<>>
    /\ created' = <<[exc |-> exc, kwargs |-> kwargs,
                     result |-> ErrorFactory_create(factory[1], exc, kwargs)]>>
    /\ UNCHANGED <<asDict, factory, notSerial>>

(***************************************************************************)
(* Concurrent calls of Config.write                                        *)
(***************************************************************************)
\* The threads that call write on the store.
Threads == {1, 2}

NoWriter == [pc |-> "idle", st |-> NoStore, result |-> NoValue]

\* Thread t calls store.write().
write_call(t) ==
    /\ store.state = "ok"
    /\ writers[t].pc = "idle"
    /\ writers' = [writers EXCEPT ![t].pc = "called"]
    /\ UNCHANGED <<cfgFile, notThreads>>

\* Thread t runs the body of write to its end. The module has no lock and
\* the body reaches no operation on the file (see Config_write), so the
\* body reads the store and the file as they are now and is over in one
\* step.
write_body(t) ==
    /\ writers[t].pc = "called"
    /\ LET w == Config_write(store, cfgFile)
       IN  /\ cfgFile' = w.file
           /\ writers' = [writers EXCEPT ![t] =
                 [pc |-> "done", st |-> store, result |-> w.result]]
    /\ UNCHANGED notThreads

(***************************************************************************)
(* The legacy reporter (src/pytattle/pytattle.py)                          *)
(***************************************************************************)
\* os.name: the POSIX branch of ask or the Windows one.
OsNames == {"posix", "nt"}

\* ask's lists for default = "yes" (the only default it is called with).
yes_list == {"yes", "y", ""}
no_list == {"no", "n", "abort"}

\* What the user does at a prompt: types an answer (lower case), lets the
\* time run out, or has no input left (end of file).
Responses == {"y", "", "n", "maybe", "timeout", "eof"}

\* What the user does at the prompts of one call: one response, or an
\* answer that is not understood and then another; after the last one the
\* user does nothing more.
ResponseSeqs ==
    {<<r>> : r \in Responses} \cup {<<"maybe", r>> : r \in Responses \ {"maybe"}}

\* ask on POSIX: the alarm's TimeoutError is caught (False); an answer of
\* neither list prompts again; EOFError from input is not caught.
RECURSIVE ask_posix(_, _)
ask_posix(responses, prompts) ==
    LET r == IF responses = <<>> THEN "timeout" ELSE Head(responses)
        one == [result |-> Ok(FALSE), answer |-> r, prompts |-> prompts + 1]
    IN  IF r = "timeout" THEN one
        ELSE IF r = "eof" THEN [one EXCEPT !.result = Raise("EOFError")]
        ELSE IF r \in yes_list THEN [one EXCEPT !.result = Ok(TRUE)]
        ELSE IF r \in no_list THEN one
        ELSE ask_posix(Tail(responses), prompts + 1)

\* ask on Windows: when the time runs out with nothing typed the response
\* is the default, "yes"; whatever is not in yes_list is False.
ask_nt(responses) ==
    LET r == IF responses = <<>> THEN "timeout" ELSE Head(responses)
        response == IF r = "timeout" THEN "yes" ELSE r
    IN  [result |-> Ok(response \in yes_list), answer |-> r, prompts |-> 1]

\* ask(input_prompt, timeout=15).
pytattle_ask(osname, responses) ==
    IF osname = "nt" THEN ask_nt(responses) ELSE ask_posix(responses, 0)

\* What _error_report is handed as trace_back: the tuple of sys.exc_info()
\* (from tattle), a str (from _send_ftp_traceback) or bytes.
TraceBacks == {"tuple", "str", "bytes"}

\* How the FTP server behaves: the upload goes through, the connection
\* fails, or the STOR fails (errors of ftplib.all_errors).
FtpOutcomes == {"ok", "connect fails", "stor fails"}

\* self.prev_error_url: None or a URL.
PrevErrorUrls == {"None", "url"}

\* PyTattle._check_previous_errors(): the first statement reads
\* `trace_back`, which is no name of the method or the module.
PyTattle_check_previous_errors == Raise("NameError")

\* The try block of _error_report with permission true: the temporary
\* file is binary, so write raises TypeError (which is none of
\* ftplib.all_errors) unless trace_back is bytes; then FTP(...) connects
\* and storlines uploads, and their errors are caught.
upload(trace_back, ftp) ==
    IF trace_back # "bytes"
    THEN [result |-> Raise("TypeError"), uploads |-> 0]
    ELSE [result |-> Ok(None), uploads |-> 1]

\* PyTattle._error_report(trace_back, permission): what it returns or
\* raises, the prompts made, the answer that decided, the permission it
\* ended with, the uploads attempted.
PyTattle_error_report(osname, prev_error_url, trace_back, permission, responses, ftp) ==
    LET none == [result |-> Ok(None), prompts |-> 0, answer |-> "none",
                 permission |-> permission, uploads |-> 0]
        message == IF prev_error_url # "None" THEN PyTattle_check_previous_errors
                   ELSE Ok("")
        asked == pytattle_ask(osname, responses)
        mid == IF permission THEN none
               ELSE [none EXCEPT !.prompts = asked.prompts, !.answer = asked.answer,
                                 !.result = asked.result,
                                 !.permission = (asked.result = Ok(TRUE))]
    IN  IF message[1] = "raise" THEN [none EXCEPT !.result = message]
        ELSE IF mid.result[1] = "raise" THEN mid
        ELSE IF ~mid.permission THEN [mid EXCEPT !.result = Ok(None)]
        ELSE LET u == upload(trace_back, ftp)
             IN  [mid EXCEPT !.result = u.result, !.uploads = u.uploads]

\* What legacy keeps of a call.
LegacyRecord(call, osname, main, trace_back, given, responses, ftp, reports, r) ==
    [call |-> call, osname |-> osname, main |-> main, trace_back |-> trace_back,
     given |-> given, responses |-> responses, ftp |-> ftp, reports |-> reports,
     prompts |-> r.prompts, answer |-> r.answer, permission |-> r.permission,
     uploads |-> r.uploads, result |-> r.result]

\* reporter._error_report(trace_back, permission), called directly.
error_report(osname, prev_error_url, trace_back, permission, responses, ftp) ==
    /\ osname = "nt" => \A i \in 1..Len(responses) : responses[i] # "eof"
    /\ legacy' = <<LegacyRecord("_error_report", osname, "none", trace_back,
                                permission, responses, ftp, 1,
                                PyTattle_error_report(osname, prev_error_url,
                                    trace_back, permission, responses, ftp))>>
    /\ UNCHANGED notLegacy

\* reporter.tattle(main): main returns or raises; the bare except hands
\* sys.exc_info() to _error_report and then calls sys.exit().
tattle(osname, prev_error_url, main, responses, ftp) ==
    /\ osname = "nt" => \A i \in 1..Len(responses) : responses[i] # "eof"
    /\ LET r == PyTattle_error_report(osname, prev_error_url, "tuple", FALSE,
                                      responses, ftp)
           returned == [result |-> Ok(None), prompts |-> 0, answer |-> "none",
                        permission |-> FALSE, uploads |-> 0]
       IN  legacy' =
             IF main = "returns"
             THEN <<LegacyRecord("tattle", osname, main, "none", FALSE,
                                 responses, ftp, 0, returned)>>
             ELSE <<LegacyRecord("tattle", osname, main, "tuple", FALSE,
                                 responses, ftp, 1,
                                 IF r.result[1] = "raise" THEN r
                                 ELSE [r EXCEPT !.result = Raise("SystemExit")])>>
    /\ UNCHANGED notLegacy

(***************************************************************************)
(* The specifications.  Under the specification of one component the      *)
(* other components stay as they are at the start.                         *)
(***************************************************************************)
NextSend ==
    \/ Report__init__
    \/ \E rs \in ReporterSeqs : send_enter(rs)
    \/ \E previous \in CheckPreviousResults : send_check(previous)
    \/ \E result \in ReportResults : send_report(result)
    \/ send_return

\* No thread is in a write call.
IdleThreads == writers = [t \in Threads |-> NoWriter]

\* Neither tattle nor _error_report has been called.
IdleLegacy == legacy = <<>>

\* as_dict has not been called, no ErrorFactory has been made.
IdleSerial ==
    /\ asDict = <<>>
    /\ factory = <<>>
    /\ created = <<>>

\* No Reporter has been made, nothing has been asked.
IdleReporter ==
    /\ rep = <<>>
    /\ asks = <<>>
    /\ configures = 0
    /\ lastConfigure = <<>>
    /\ lastGetCache = <<>>
    /\ logins = 0

\* No Error has been made.
IdleError ==
    /\ errors = <<>>
    /\ fingerprints = <<>>

\* No Config has been made, and there is no config file.
IdleConfig ==
    /\ cfgFile = NoValue
    /\ store = NoStore
    /\ lastRead = <<>>
    /\ lastWrite = <<>>

\* No Crypter has been made.
IdleCrypt ==
    /\ haveCryptography = TRUE
    /\ saltFiles = <<>>
    /\ bytesNamed = {}
    /\ crypter = <<>>
    /\ ct = NoValue
    /\ enc = NoValue
    /\ pt = NoValue
    /\ dec = NoValue

InitSend ==
    FreshReport /\ IdleSerial /\ IdleThreads /\ IdleLegacy /\ IdleCrypt /\ IdleConfig /\ IdleError /\ IdleReporter

SpecSend == InitSend /\ [][NextSend]_vars

Spec == SpecSend

\* The salt files found at the start: any of the paths may exist.
SaltFileStates ==
    UNION {[ps -> SaltFileContents] : ps \in SUBSET SaltPaths}

InitCrypt ==
    /\ haveCryptography \in BOOLEAN
    /\ saltFiles \in SaltFileStates
    /\ bytesNamed = {}
    /\ crypter = [c \in CrypterIds |-> NoCrypter]
    /\ ct = NoValue
    /\ enc = NoValue
    /\ pt = NoValue
    /\ dec = NoValue
    /\ FreshReport
    /\ IdleSerial
    /\ IdleThreads
    /\ IdleLegacy
    /\ IdleConfig
    /\ IdleError
    /\ IdleReporter

NextCrypt ==
    \/ \E c \in CrypterIds, salt \in SaltArgs, random \in RandomSalts :
          Crypter__init__(c, salt, random)
    \/ \E c \in CrypterIds, content \in Texts, passphrase \in Passphrases, iv \in Ivs :
          encrypt(c, content, passphrase, iv)
    \/ corrupt
    \/ \E c \in CrypterIds, passphrase \in Passphrases : decrypt(c, passphrase)

SpecCrypt == InitCrypt /\ [][NextCrypt]_vars

InitConfig ==
    /\ haveCryptography = TRUE
    /\ saltFiles \in {[ps \in {} |-> StoreSalt], [ps \in SaltPaths |-> StoreSalt]}
    /\ bytesNamed = {}
    /\ cfgFile \in FileContents \cup {NoValue}
    /\ store = NoStore
    /\ lastRead = <<>>
    /\ lastWrite = <<>>
    /\ crypter = <<>>
    /\ ct = NoValue
    /\ enc = NoValue
    /\ pt = NoValue
    /\ dec = NoValue
    /\ FreshReport
    /\ IdleSerial
    /\ IdleThreads
    /\ IdleLegacy
    /\ IdleError
    /\ IdleReporter

NextConfig ==
    \/ \E config_file \in ConfigFileArgs, passphrase \in PassphraseArgs,
          salt \in StoreSaltArgs, kwargs \in KwargSets, random \in RandomSalts :
          Config__init__(config_file, passphrase, salt, kwargs, random)
    \/ \E section_name \in SectionNames, options \in OptionSets :
          set_section(section_name, options)
    \/ read
    \/ write
    \/ \E content \in FileContents \cup {NoValue} : file_replace(content)
    \/ file_corrupt

SpecConfig == InitConfig /\ [][NextConfig]_vars

InitError ==
    /\ errors = [e \in ErrorIds |-> NoError]
    /\ fingerprints = [e \in ErrorIds |-> NoValue]
    /\ FreshReport
    /\ IdleSerial
    /\ IdleThreads
    /\ IdleLegacy
    /\ IdleCrypt
    /\ IdleConfig
    /\ IdleReporter

NextError ==
    \/ \E e \in ErrorIds, lineno \in Linenos, exc_message \in FieldValues :
          Error__init__(e, lineno, exc_message)
    \/ \E e \in ErrorIds, package_attr \in PackageAttrs,
          package_name \in FieldValues, module_name \in FieldValues,
          method_name \in FieldValues :
          setattrs(e, package_attr, package_name, module_name, method_name)
    \/ \E e \in ErrorIds : as_fingerprint(e)

SpecError == InitError /\ [][NextError]_vars

\* A user store is opened on a.ini, plain, where there is no file or the
\* stored map; reporters are made from it and configured.
InitReporter ==
    /\ cfgFile \in {NoValue, PlainFile(StoredText)}
    /\ store = NoStore
    /\ lastRead = <<>>
    /\ lastWrite = <<>>
    /\ rep = NoReporter
    /\ asks = <<>>
    /\ configures = 0
    /\ lastConfigure = <<>>
    /\ lastGetCache = <<>>
    /\ logins = 0
    /\ FreshReport
    /\ IdleSerial
    /\ IdleThreads
    /\ IdleLegacy
    /\ IdleCrypt
    /\ IdleError

NextReporter ==
    \/ Config__init__(Str("a.ini"), None, None, EmptyDict, Repeat(SaltLen, 7))
    \/ \E options \in ReporterOptionSets : set_section(undefined, options)
    \/ \E section_name \in {github, undefined} : get_cache(section_name)
    \/ cache_put(github, api, <<118>>)
    \/ write
    \/ \E cls \in ReporterClasses, required \in RequiredMaps,
          kwargs \in ReporterKwargs :
          Reporter__init__(cls, EmptyDict, required, kwargs)
    \/ configure
    \/ GithubReporter_configure

SpecReporter == InitReporter /\ [][NextReporter]_vars

\* Reporter classes with the defaults {} and {password: x, name: x,
\* retries: 3}; keyword arguments none, password, name or both (value v);
\* the store's section gets password, name or retries (value w), and the
\* store has no DEFAULT option or retries = 7.
ClassDefaults ==
    {EmptyDict,
     (password :> <<120>>) @@ (NameOption :> <<120>>) @@ (retries :> <<51>>)}
AttributeKwargs ==
    {EmptyDict, password :> <<118>>, NameOption :> <<118>>,
     (password :> <<118>>) @@ (NameOption :> <<118>>)}
AttributeOptionSets ==
    {password :> <<119>>, NameOption :> <<119>>, retries :> <<119>>}
AttributeOptions == {password, NameOption, retries, api}

InitAttributes ==
    /\ cfgFile = NoValue
    /\ store \in {[NoStore EXCEPT !.state = "ok", !.config_file = Str("a.ini"),
                                   !.defaults = d] :
                     d \in {EmptyDict, retries :> <<55>>}}
    /\ lastRead = <<>>
    /\ lastWrite = <<>>
    /\ rep = NoReporter
    /\ asks = <<>>
    /\ configures = 0
    /\ lastConfigure = <<>>
    /\ lastGetCache = <<>>
    /\ logins = 0
    /\ FreshReport
    /\ IdleSerial
    /\ IdleThreads
    /\ IdleLegacy
    /\ IdleCrypt
    /\ IdleError

NextAttributes ==
    \/ \E options \in AttributeOptionSets : set_section(undefined, options)
    \/ \E cls \in ReporterClasses, defaults \in ClassDefaults,
          kwargs \in AttributeKwargs :
          Reporter__init__(cls, defaults, GithubRequired, kwargs)

SpecAttributes == InitAttributes /\ [][NextAttributes]_vars

\* A Report on a user store (opened on a.ini, plain, no file) that is given
\* a password and retries, and an ErrorFactory.
InitSerial ==
    /\ cfgFile = NoValue
    /\ store = [NoStore EXCEPT !.state = "ok", !.config_file = Str("a.ini")]
    /\ lastRead = <<>>
    /\ lastWrite = <<>>
    /\ FreshReport
    /\ IdleSerial
    /\ IdleThreads
    /\ IdleLegacy
    /\ IdleCrypt
    /\ IdleError
    /\ IdleReporter

NextSerial ==
    \/ \E options \in ReporterOptionSets : set_section(undefined, options)
    \/ \E paranoid \in BOOLEAN : as_dict(paranoid)
    \/ \E application_metadata \in ApplicationMetadata :
          ErrorFactory__init__(application_metadata)
    \/ \E exc \in Exceptions, kwargs \in OverrideSets : create(exc, kwargs)

SpecSerial == InitSerial /\ [][NextSerial]_vars

\* Two threads write a store (plain, or with a passphrase and a byte-string
\* salt) opened on a.ini, which is absent or holds the stored map, while
\* its section s is set.
InitThreads ==
    /\ cfgFile \in {NoValue, PlainFile(StoredText)}
    /\ store \in {[NoStore EXCEPT !.state = "ok", !.config_file = Str("a.ini")],
                   [NoStore EXCEPT !.state = "ok", !.config_file = Str("a.ini"),
                                   !.passphrase = Str(<<112>>),
                                   !.salt = Bytes(StoreSalt)]}
    /\ lastRead = <<>>
    /\ lastWrite = <<>>
    /\ haveCryptography = TRUE
    /\ saltFiles = <<>>
    /\ bytesNamed = {}
    /\ crypter = <<>>
    /\ ct = NoValue
    /\ enc = NoValue
    /\ pt = NoValue
    /\ dec = NoValue
    /\ FreshReport
    /\ IdleSerial
    /\ IdleThreads
    /\ IdleLegacy
    /\ IdleError
    /\ IdleReporter

NextThreads ==
    \/ \E section_name \in SectionNames, options \in OptionSets :
          set_section(section_name, options)
    \/ \E t \in Threads : write_call(t)
    \/ \E t \in Threads : write_body(t)

SpecThreads == InitThreads /\ [][NextThreads]_vars

\* A PyTattle object, on which tattle and _error_report are called.
InitLegacy ==
    /\ FreshReport
    /\ IdleSerial
    /\ IdleThreads
    /\ IdleLegacy
    /\ IdleCrypt
    /\ IdleConfig
    /\ IdleError
    /\ IdleReporter

NextLegacy ==
    \/ \E osname \in OsNames, prev_error_url \in PrevErrorUrls,
          main \in {"returns", "raises"}, responses \in ResponseSeqs,
          ftp \in FtpOutcomes :
          tattle(osname, prev_error_url, main, responses, ftp)
    \/ \E osname \in OsNames, prev_error_url \in PrevErrorUrls,
          trace_back \in TraceBacks, permission \in BOOLEAN,
          responses \in ResponseSeqs, ftp \in FtpOutcomes :
          error_report(osname, prev_error_url, trace_back, permission, responses, ftp)

SpecLegacy == InitLegacy /\ [][NextLegacy]_vars

\* Sections "s" and "t"; the options {k: v}, {K: w}, {j: v}, {j: w}.
MoreSectionNames == {<<115>>, <<116>>}
MoreOptionSets ==
    {<<107>> :> <<118>>, <<75>> :> <<119>>, <<106>> :> <<118>>, <<106>> :> <<119>>}

\* A store opened on a.ini, plain, where there is no file, with no keyword
\* arguments or with K=w.
InitSections ==
    /\ cfgFile = NoValue
    /\ store \in {[NoStore EXCEPT !.state = "ok", !.config_file = Str("a.ini"),
                                   !.defaults = set_options(EmptyDict, kwargs)] :
                     kwargs \in KwargSets}
    /\ lastRead = <<>>
    /\ lastWrite = <<>>
    /\ haveCryptography = TRUE
    /\ saltFiles = <<>>
    /\ bytesNamed = {}
    /\ crypter = <<>>
    /\ ct = NoValue
    /\ enc = NoValue
    /\ pt = NoValue
    /\ dec = NoValue
    /\ FreshReport
    /\ IdleSerial
    /\ IdleThreads
    /\ IdleLegacy
    /\ IdleError
    /\ IdleReporter

NextSections ==
    \E section_name \in MoreSectionNames, options \in MoreOptionSets :
        set_section(section_name, options)

SpecSections == InitSections /\ [][NextSections]_vars

(***************************************************************************)
(* Vocabulary of the claims about send.                                    *)
(***************************************************************************)
Positions == 1..Len(reporters)
SendEnded == pc \in {"returned", "raised"}
Skipped == {i \in Positions : checked[i] = "True"}
Reported == {i \in Positions : reportCalls[i] > 0}

(***************************************************************************)
(* C1.  In Report.send, a reporter whose check_previous returned true is   *)
(* never reported to in that send call: its report call count stays 0.     *)
(***************************************************************************)
C1_SkippedNeverReported ==
    \A i \in Positions : checked[i] = "True" => reportCalls[i] = 0

\* A finished send call that skipped one reporter and reported to another.
C1_Witness ==
    /\ pc = "returned"
    /\ \E i, j \in Positions :
          checked[i] = "True" /\ checked[j] = "False" /\ reportCalls[j] = 1

(***************************************************************************)
(* C2.  Whatever subset of the reporters fails in report (an unsuccessful  *)
(* outcome or an exception), one send call attempts every reporter exactly *)
(* once: check_previous once on each, report once on each one not skipped, *)
(* those after a failing one included.  (The failures of the claim are     *)
(* report's, so calls in which check_previous raised are left out.)        *)
(***************************************************************************)
C2_EveryReporterAttemptedOnce ==
    (SendEnded /\ \A i \in Positions : checked[i] # "raise")
        => \A i \in Positions :
              /\ checkCalls[i] = 1
              /\ reportCalls[i] = (IF i \in Skipped THEN 0 ELSE 1)

(***************************************************************************)
(* C3.  The value send returns is the number of reporters reported to in   *)
(* that call (check_previous false and report invoked); skipped reporters  *)
(* are not counted.                                                        *)
(***************************************************************************)
C3_ReturnsNumberSent ==
    pc = "returned" => ret = <<Cardinality(Reported)>>

(***************************************************************************)
(* C4.  After the send call of a fresh Report on N reporters, any subset   *)
(* of which fails, results holds exactly N minus the number skipped        *)
(* entries, each under its reporter's name and equal to what that          *)
(* reporter's report returned, and send did not raise.                     *)
(***************************************************************************)
C4_ResultsComplete ==
    (SendEnded /\ sends = 1 /\ \A i \in Positions : checked[i] # "raise")
        => /\ pc = "returned"
           /\ Cardinality(DOMAIN results) = Len(reporters) - Cardinality(Skipped)
           /\ \A i \in Positions \ Skipped :
                 /\ reporters[i] \in DOMAIN results
                 /\ results[reporters[i]] = outcome[i]

(***************************************************************************)
(* C5 as stated.  A reporter whose check_previous returned true has an     *)
(* entry in results that records it as already reported (an entry that is  *)
(* not the outcome of a report call).                                      *)
(***************************************************************************)
C5_SkippedMarkedInResults ==
    \A i \in Skipped :
        /\ reporters[i] \in DOMAIN results
        /\ results[reporters[i]] \notin Outcomes

\* The step of send in which check_previous answers true.
SkipStep ==
    /\ pc = "for"
    /\ pos < Len(reporters)
    /\ checked'[pos + 1] = "True"

(***************************************************************************)
(* C5 as amended.  When check_previous returns true the reporter is not    *)
(* reported to and send goes on to the next reporter leaving results       *)
(* exactly as it was: nothing is recorded for the skipped reporter.        *)
(***************************************************************************)
C5_SkipLeavesResultsUntouched ==
    [][SkipStep => /\ results' = results
                   /\ reportCalls' = reportCalls
                   /\ pc' = "for"
                   /\ pos' = pos + 1]_vars

\* A send call has ended with a skipped reporter of which results holds
\* nothing, beside a reporter whose result it holds.
C5_Witness ==
    /\ SendEnded
    /\ \E i \in Skipped : reporters[i] \notin DOMAIN results
    /\ DOMAIN results # {}

(***************************************************************************)
(* Vocabulary of the claims about Crypter.                                 *)
(***************************************************************************)
\* decrypt was called on exactly what the last encrypt call returned.
DecryptedWhatWasEncrypted ==
    /\ pt # NoValue
    /\ enc.result[1] = "ok"
    /\ dec.content = enc.result[2]

(***************************************************************************)
(* C7.  Crypter round trip: for every passphrase P, salt S (a byte string) *)
(* and text T, decrypt(encrypt(T, P), P) on Crypters holding the same salt *)
(* S returns exactly T.                                                    *)
(***************************************************************************)
C7_RoundTrip ==
    (/\ DecryptedWhatWasEncrypted
     /\ dec.passphrase = enc.passphrase
     /\ dec.salt = enc.salt)
        => pt = Ok(enc.content)

\* Another Crypter object, holding the same salt, has decrypted a text of
\* two characters, one of them outside ASCII.
C7_Witness ==
    /\ DecryptedWhatWasEncrypted
    /\ dec.by # enc.by
    /\ dec.salt = enc.salt
    /\ dec.passphrase = enc.passphrase
    /\ Len(enc.content) = 2
    /\ 233 \in {enc.content[i] : i \in 1..2}
    /\ pt = Ok(enc.content)

(***************************************************************************)
(* Vocabulary of the claims about Config.                                  *)
(***************************************************************************)
NoMaps == <<EmptyDict, EmptyDict>>

\* Read r came after write w, by a store with no map yet and with the
\* passphrase and salt of the store that wrote.
FreshReadAfterWrite(w, r) ==
    /\ r.passphrase = w.passphrase
    /\ r.salt = w.salt
    /\ r.before = NoMaps

\* Read r, of a store with a passphrase, found a file that was encrypted
\* under another passphrase or another salt than the store's, or was
\* damaged since.
Undecryptable(r) ==
    /\ Truthy(r.passphrase)
    /\ r.file[1] \in {"token", "corrupted"}
    /\ \/ r.file[1] = "corrupted"
       \/ r.file[2][1] # str_encode(r.passphrase[2])
       \/ Bytes(r.file[2][2]) # r.salt

\* C6: write() followed by read() on a fresh store opened on the same file,
\* with the same passphrase and salt, reproduces the map the writing store
\* held: both calls return and the maps are equal, with a passphrase and
\* without.
C6_WriteThenReadReproducesMap ==
    (lastWrite # <<>> /\ lastRead # <<>>
       /\ FreshReadAfterWrite(lastWrite[1], lastRead[1]))
    => /\ lastWrite[1].result = Ok(None)
       /\ lastRead[1].result = Ok(None)
       /\ lastRead[1].after = lastWrite[1].maps

\* C8: read() of a file encrypted under another passphrase or salt, or
\* damaged, raises the authentication error (InvalidToken) to its caller
\* and leaves the store's maps as they were.
C8_UndecryptableReadFails ==
    (lastRead # <<>> /\ Undecryptable(lastRead[1]))
    => /\ lastRead[1].result = Raise("InvalidToken")
       /\ lastRead[1].after = lastRead[1].before

(***************************************************************************)
(* Vocabulary of the claims about Error.                                   *)
(***************************************************************************)
\* Field f of record e: <<value>>, the attribute if the object has one of
\* that name, else what the constructor was given; <<>> if neither.
Field(e, f) ==
    IF f \in DOMAIN errors[e].attrs THEN <<errors[e].attrs[f]>>
    ELSE IF f \in DOMAIN errors[e].given THEN <<errors[e].given[f]>>
    ELSE <<>>

\* as_fingerprint has been called on both records since they last changed.
BothFingerprinted(e1, e2) ==
    fingerprints[e1] # NoValue /\ fingerprints[e2] # NoValue

\* C9: two records with the same module name, method name, exception kind
\* and exception message have the same fingerprint (as_fingerprint returns
\* a digest for both, and the same one), whatever their other fields:
\* line number, package name.
C9_FingerprintStable ==
    \A e1 \in ErrorIds, e2 \in ErrorIds :
        (/\ BothFingerprinted(e1, e2)
         /\ \A f \in {"module_name", "method_name", "exc_type", "exc_message"} :
               Field(e1, f) = Field(e2, f))
        => /\ fingerprints[e1][1] = "ok"
           /\ fingerprints[e1] = fingerprints[e2]

\* C10: two records that differ in exception message or in method name have
\* different fingerprints (as_fingerprint returns a digest for both, and
\* not the same one), the hash taken as collision-free.
C10_FingerprintDiscriminates ==
    \A e1 \in ErrorIds, e2 \in ErrorIds :
        (/\ BothFingerprinted(e1, e2)
         /\ \/ Field(e1, "exc_message") # Field(e2, "exc_message")
            \/ Field(e1, "method_name") # Field(e2, "method_name"))
        => /\ fingerprints[e1][1] = "ok"
           /\ fingerprints[e2][1] = "ok"
           /\ fingerprints[e1] # fingerprints[e2]

(***************************************************************************)
(* Vocabulary of the claims about Reporter.configure and get_cache.        *)
(***************************************************************************)
\* Whether the section of the reporter in `sections` has the option.
InSection(sections, option) ==
    /\ undefined \in DOMAIN sections
    /\ optionxform(option) \in DOMAIN sections[undefined]

\* The last configure call was one of Reporter.configure.
ConfigureEnded == lastConfigure # <<>> /\ rep.cls = "Reporter"

\* Configure call c left every required option in the section: an option
\* that was there with the value it had, one that was not with the coerced
\* value of self.config where self.config has it.
Resolved(c) ==
    \A i \in 1..Len(c.required) :
        LET option == c.required[i].option
            o == optionxform(option)
        IN  /\ InSection(c.after, option)
            /\ InSection(c.before, option)
                  => c.after[undefined][o] = c.before[undefined][o]
            /\ (~InSection(c.before, option) /\ option \in DOMAIN c.config)
                  => Ok(Str(c.after[undefined][o]))
                        = Coerce(c.required[i].opt_type, c.config[option])

C12_SensitiveAskedObscured ==
    \A i \in 1..Len(asks) : \A j \in 1..Len(rep.required) :
        (rep.required[j].option = asks[i].option /\ rep.required[j].obsecure)
        => asks[i].obsecure

\* C13: a Crypter made with the path of an existing file has the file's
\* bytes as salt; one made with a path that does not exist has a fresh
\* salt of 16 bytes, which is then in the file at that path; one made with
\* bytes has exactly those bytes.
C13_SaltResolution ==
    \A c \in CrypterIds :
        crypter[c].state \notin {"none", "TattleError"}
        => /\ crypter[c].state = "ok"
           /\ crypter[c].arg[1] = "str"
                 => /\ crypter[c].arg[2] \in DOMAIN saltFiles
                    /\ crypter[c].salt = Bytes(saltFiles[crypter[c].arg[2]])
                    /\ Len(crypter[c].salt[2]) = SaltLen
           /\ crypter[c].arg[1] = "bytes" => crypter[c].salt = crypter[c].arg

\* C14: read() of a store whose file does not exist returns and leaves the
\* maps as they were, with a passphrase and without; and the construction
\* of a store with the default config file does not fail for want of the
\* file (a constructor that raised TypeError without having read did so
\* in os.path.exists).
C14_MissingFileIsNoError ==
    /\ (lastRead # <<>> /\ lastRead[1].file = NoValue)
          => /\ lastRead[1].result = Ok(None)
             /\ lastRead[1].after = lastRead[1].before
    /\ ~(store.state = "TypeError" /\ lastRead = <<>>)

(***************************************************************************)
(* Vocabulary of the claims about set_section.                             *)
(***************************************************************************)
\* What a step set_section(name, options) has done to the store: the
\* section is there, every option of `options` has its given value, the
\* section's other options have the values they had, and the other
\* sections and the defaults are as they were.
SetSectionDone(name, options) ==
    /\ Config_has_section(store', name)
    /\ \A option \in DOMAIN options :
          /\ optionxform(option) \in DOMAIN store'.sections[name]
          /\ Config_get(store', name, option) = options[option]
    /\ \A o \in DOMAIN store'.sections[name] :
          \/ \E option \in DOMAIN options : optionxform(option) = o
          \/ /\ Config_has_section(store, name)
             /\ o \in DOMAIN store.sections[name]
             /\ store'.sections[name][o] = store.sections[name][o]
    /\ Config_has_section(store, name)
          => DOMAIN store.sections[name] \subseteq DOMAIN store'.sections[name]
    /\ DOMAIN store'.sections = DOMAIN store.sections \cup {name}
    /\ \A other \in DOMAIN store.sections \ {name} :
          store'.sections[other] = store.sections[other]
    /\ store'.defaults = store.defaults

\* C15: set_section(name, options) creates the section if it is absent and
\* sets every option of `options` to its value, over any value it had; the
\* section's options that `options` does not name keep their values, and
\* all other sections are unchanged.
C15_SetSectionFrame ==
    [][\A section_name \in MoreSectionNames, options \in MoreOptionSets :
          set_section(section_name, options)
          => SetSectionDone(section_name, options)]_vars

\* set_section has overwritten k in section s (first v or w, now w), kept
\* j there, and made section t besides.
C15_Witness ==
    /\ store.state = "ok"
    /\ DOMAIN store.sections = MoreSectionNames
    /\ store.sections[<<115>>] = (<<107>> :> <<119>>) @@ (<<106>> :> <<118>>)

\* C16: get_cache(section) returns the section's mapping of the store's
\* cache: empty on the first access, afterwards holding the values put into
\* it, and holding nothing that was put under another section.
C16_GetCacheReturnsSectionCache ==
    lastGetCache # <<>>
    => lastGetCache[1].result =
          Ok(IF lastGetCache[1].section \in DOMAIN store.cache
             THEN store.cache[lastGetCache[1].section]
             ELSE EmptyDict)

\* C17: a step that changes the store's file is a write() step, so
\* set_section, get_cache, changes of the cache and configure leave the file
\* as it is; what write() leaves in the file is what it would leave were
\* the cache empty; and a newly constructed store has an empty cache.
C17_OnlyWriteChangesFile ==
    [][/\ cfgFile' # cfgFile => write
       /\ write =>
            cfgFile' = Config_write([store EXCEPT !.cache = EmptyDict], cfgFile).file
       /\ Config__init__(Str("a.ini"), None, None, EmptyDict, Repeat(SaltLen, 7))
              /\ store'.state = "ok"
            => store'.cache = EmptyDict]_vars

\* The store read from the file has since got the section "undefined" and a
\* cache entry, configure has run on it, and the file is as it was read.
C17_Witness ==
    /\ cfgFile = PlainFile(StoredText)
    /\ store.state = "ok"
    /\ DOMAIN store.sections = {<<115>>, undefined}
    /\ store.cache # EmptyDict
    /\ lastConfigure # <<>>
    /\ lastConfigure[1].result = Ok(None)

\* C18: once write() has written, the file holds, for a store with a
\* passphrase, the serialization of the store's maps encrypted under the
\* store's passphrase and salt, and never plain text; for a store without a
\* passphrase it holds the plain serialization.
C18_AtRestEncryption ==
    lastWrite # <<>>
    => LET w == lastWrite[1]
           text == ConfigParser_text(w.maps[1], w.maps[2])
       IN  IF Truthy(w.passphrase)
           THEN /\ cfgFile[1] = "token"
                /\ w.salt[1] = "bytes"
                /\ cfgFile[2] = <<str_encode(w.passphrase[2]), w.salt[2]>>
                /\ cfgFile[4] = str_encode(text)
           ELSE cfgFile = PlainFile(text)

\* The complete contents write() is to give the file of store st: the
\* serialization of its maps, encrypted under its passphrase and salt if it
\* has a passphrase (there is none under a salt that is no byte string).
Serialized(st) ==
    LET text == ConfigParser_text(st.defaults, st.sections)
    IN  IF ~Truthy(st.passphrase) THEN {PlainFile(text)}
        ELSE IF st.salt[1] # "bytes" THEN {}
        ELSE {Fernet_encrypt(<<str_encode(st.passphrase[2]), st.salt[2]>>,
                             str_encode(text), iv) : iv \in Ivs}

\* C19: write() replaces the file atomically: a write() step never leaves
\* the file with anything but its previous contents or the complete new
\* serialization, and it leaves it with the new serialization.
C19_WriteReplacesAtomically ==
    [][write => /\ cfgFile' = cfgFile \/ cfgFile' \in Serialized(store)
                /\ cfgFile' \in Serialized(store)]_vars

\* C20: configuration is resolved once and kept: over the configure calls
\* of a reporter on one store no required option is asked for twice, login
\* is called at most once, and a configure call of a GithubReporter returns
\* with the api handle in the store's github cache.
C20_ConfigureResolvedOnce ==
    /\ \A i, j \in 1..Len(asks) : i # j => asks[i].option # asks[j].option
    /\ logins <= 1
    /\ (lastConfigure # <<>> /\ rep.cls = "GithubReporter")
       => /\ lastConfigure[1].result = Ok(None)
          /\ github \in DOMAIN store.cache
          /\ api \in DOMAIN store.cache[github]

(***************************************************************************)
(* Vocabulary of the claim about a reporter's effective configuration.     *)
(***************************************************************************)
\* What the precedence gives for `option` to a reporter made from the store
\* at hand: the keyword argument, else the value of the store's section
\* self.name, else the class default, else None.
Effective(option, defaults, kwargs) ==
    IF option \in DOMAIN kwargs THEN Str(kwargs[option])
    ELSE IF Config_has_option(store, undefined, option)
    THEN Str(Config_get(store, undefined, option))
    ELSE IF option \in DOMAIN defaults THEN Str(defaults[option])
    ELSE None

\* A construction step leaves every option of `options` readable as
\* reporter.<option> with its effective value, and the class's defaults as
\* they were.
Precedence(options) ==
    \A cls \in ReporterClasses, defaults \in ClassDefaults, kwargs \in AttributeKwargs :
        Reporter__init__(cls, defaults, GithubRequired, kwargs)
        => /\ \A option \in options :
                Reporter_attribute(rep', option) = Effective(option, defaults, kwargs)
           /\ rep'.defaults = defaults

\* C21 as stated: for every option, reporter.<option> is the keyword
\* argument if given, else the config section's value if present, else the
\* class default, else None; construction leaves the class's defaults
\* unchanged.
C21_PrecedenceEveryOption == [][Precedence(AttributeOptions)]_vars

\* C21: the same for every option whose name is not an attribute of the
\* reporter object itself (name, defaults, required, config).
C21_PrecedenceOfOptions ==
    [][Precedence(AttributeOptions \ ReporterAttributes)]_vars

\* A reporter whose class default of password is x, made with password=v
\* from a store whose section has password = w and whose DEFAULT has
\* retries = 7: password reads v, retries 7, api None.
C21_Witness ==
    /\ rep.state = "ok"
    /\ store.state = "ok"
    /\ password \in DOMAIN rep.defaults
    /\ Config_has_section(store, undefined)
    /\ password \in DOMAIN store.sections[undefined]
    /\ Reporter_attribute(rep, password) = Str(<<118>>)
    /\ Reporter_attribute(rep, retries) = Str(<<55>>)
    /\ Reporter_attribute(rep, api) = None

\* C22: Report.as_dict returns a mapping with the keys user, error and
\* results, results being the Report's results map (and nothing of it
\* giving away a password of the user store, nor, with paranoid, anything
\* identifying the user).
C22_AsDictGivesMapping ==
    asDict # <<>>
    => /\ asDict[1].result[1] = "ok"
       /\ DOMAIN asDict[1].result[2] = {"user", "error", "results"}
       /\ asDict[1].result[2].results = results

\* C23: ErrorFactory.create(exc, **overrides) returns an Error in which
\* every field named in the overrides has the override's value, and which
\* carries the factory's application_metadata and system_metadata.
C23_CreateAppliesOverrides ==
    created # <<>>
    => LET c == created[1]
       IN  /\ c.result[1] = "ok"
           /\ c.result[2][1] = "Error"
           /\ \A field \in DOMAIN c.kwargs : c.result[2][2][field] = c.kwargs[field]
           /\ c.result[2][2].application_metadata = factory[1].application_metadata
           /\ c.result[2][2].system_metadata = factory[1].system_metadata

(***************************************************************************)
(* C24.  Ordering within Report.send: the reporters are taken in the order *)
(* of the sequence; a report call on reporter i comes directly after the   *)
(* check_previous call on reporter i, which returned false; and            *)
(* check_previous on reporter i+1 comes only when reporter i is finished   *)
(* (reported to, or skipped because its check_previous returned true).     *)
(***************************************************************************)
C24_SendOrdering ==
    \A k \in 1..Len(callLog) :
        LET call == callLog[k]
        IN  /\ call[2] \in Positions
            /\ call[1] = "report"
                 => /\ k > 1
                    /\ callLog[k - 1] = <<"check", call[2]>>
                    /\ checked[call[2]] = "False"
            /\ call[1] = "check"
                 => IF k = 1 THEN call[2] = 1
                    ELSE /\ callLog[k - 1][2] = call[2] - 1
                         /\ callLog[k - 1][1] = "check"
                               => checked[call[2] - 1] = "True"

\* A send call on three reporters has returned: the first reported to, the
\* second skipped, the third reported to.
C24_Witness ==
    /\ pc = "returned"
    /\ callLog = <<<<"check", 1>>, <<"report", 1>>, <<"check", 2>>,
                   <<"check", 3>>, <<"report", 3>>>>

\* C25: when two concurrent write() calls on the store have ended, the file
\* holds exactly the complete serialization that one of the two calls made
\* of the store, under every interleaving.
C25_ConcurrentWritesDoNotMix ==
    (\A t \in Threads : writers[t].pc = "done")
    => \E t \in Threads : cfgFile \in Serialized(writers[t].st)

\* C26: tattle calls _error_report once when main raises and not at all
\* when main returns; an upload is attempted only with permission, passed
\* in or given by the user answering yes at the prompt; when the user
\* answers no or lets the prompt time out no upload is attempted; and a
\* failure of the FTP upload does not leave _error_report as an exception.
C26_ConsentGating ==
    legacy # <<>>
    => LET c == legacy[1]
       IN  /\ c.call = "tattle" => c.reports = (IF c.main = "raises" THEN 1 ELSE 0)
           /\ c.uploads > 0 => (c.given \/ c.answer \in yes_list)
           /\ (~c.given /\ c.answer \in no_list \cup {"timeout"}) => c.uploads = 0
           /\ (c.uploads > 0 /\ c.ftp # "ok") => c.result = Ok(None)

=============================================================================
